---- MODULE Spec2Model ----
(***************************************************************************)
(* AgentOrchestrator (src/agents/agent_interface.py): agent registry,      *)
(* sequential task dispatch, TaskExecution tracking and aggregation of a   *)
(* workflow result.                                                        *)
(***************************************************************************)
EXTENDS Integers, Sequences, FiniteSets, TLC

\* ------------------------------------------------------------------------
\* Bounds of the model
\* ------------------------------------------------------------------------
\* largest number of entries of a task_assignments mapping
MaxAssignments == 2
\* largest number of TaskExecution records one orchestrator creates
MaxQueue == 2

\* ------------------------------------------------------------------------
\* Values
\* ------------------------------------------------------------------------
AgentNames == {"coder1", "tester"}

WRITE_CODE == "Write code"
TEST_CODE == "Test code"
ActionTypes == {WRITE_CODE, TEST_CODE}

PENDING == "pending"
IN_PROGRESS == "in_progress"
COMPLETED == "completed"
FAILED == "failed"
TaskStatus == {PENDING, IN_PROGRESS, COMPLETED, FAILED}

\* Python's None, as a record (for fields holding dicts) and as a string
\* (for fields holding strings)
None == [type |-> "NoneType"]
NoneStr == "None"

InterfaceMethods == {"execute_task", "get_status", "get_capabilities"}

\* Candidate agent objects handed to register_agent: attrs are the methods
\* the object has, capabilities_raise tells whether its get_capabilities
\* raises.
Candidates ==
    { [id |-> 1, attrs |-> InterfaceMethods, capabilities_raise |-> FALSE],
      [id |-> 2, attrs |-> {"execute_task", "get_capabilities"}, capabilities_raise |-> FALSE],
      [id |-> 3, attrs |-> {"execute_task", "get_status"}, capabilities_raise |-> FALSE],
      [id |-> 4, attrs |-> {"get_status", "get_capabilities"}, capabilities_raise |-> FALSE],
      [id |-> 5, attrs |-> InterfaceMethods, capabilities_raise |-> TRUE] }

\* what an agent's execute_task can return, and the messages it can raise
Payloads == { [success |-> TRUE], [success |-> FALSE] }
ExceptionMessages == {"boom"}

\* ------------------------------------------------------------------------
\* Python dict helpers (a dict is a function on its key set)
\* ------------------------------------------------------------------------
EmptyDict == [k \in {} |-> None]
Put(d, key, value) == [k \in (DOMAIN d) \cup {key} |-> IF k = key THEN value ELSE d[k]]
Del(d, key) == [k \in (DOMAIN d) \ {key} |-> d[k]]

hasattr(obj, method) == method \in obj.attrs

\* str(n) for a natural number
Digits == <<"0", "1", "2", "3", "4", "5", "6", "7", "8", "9">>
RECURSIVE IntToStr(_)
IntToStr(n) == IF n < 10 THEN Digits[n + 1]
               ELSE IntToStr(n \div 10) \o Digits[(n % 10) + 1]

\* the success rate computed without the guard on total_count: the division
\* faults on an empty mapping
SuccessRateUnguarded(success_count, total_count) ==
    IF total_count = 0 THEN "ZeroDivisionError"
    ELSE LET q == (1000 * success_count) \div total_count
             r == (1000 * success_count) % total_count
             tenths == IF 2 * r > total_count \/ (2 * r = total_count /\ q % 2 = 1)
                       THEN q + 1 ELSE q
         IN IntToStr(tenths \div 10) \o "." \o IntToStr(tenths % 10) \o "%"

\* f"{(success_count/total_count)*100:.1f}%" if total_count > 0 else "0%"
\* (one decimal, round half to even)
SuccessRate(success_count, total_count) ==
    IF total_count > 0
    THEN LET q == (1000 * success_count) \div total_count
             r == (1000 * success_count) % total_count
             tenths == IF 2 * r > total_count \/ (2 * r = total_count /\ q % 2 = 1)
                       THEN q + 1 ELSE q
         IN IntToStr(tenths \div 10) \o "." \o IntToStr(tenths % 10) \o "%"
    ELSE "0%"

\* a task id that leaves out the length of the queue
TaskIdNoCount(agent_name, queue_len) == agent_name \o "_" \o IntToStr(1)

\* f"{agent_name}_{len(self.task_queue) + 1}"
TaskId(agent_name, queue_len) == agent_name \o "_" \o IntToStr(queue_len + 1)

NotRegisteredMsg(agent_name) == "Agent '" \o agent_name \o "' not registered"
TaskFailedMsg(e) == "Task failed: " \o e

\* ------------------------------------------------------------------------
\* Inputs
\* ------------------------------------------------------------------------
Assignment(agent_name, action) == [role |-> agent_name, action |-> action, task |-> "task"]

\* the action of a role (agent_capabilities): the coders write, the tester tests
RoleAction(agent_name) == IF agent_name = "tester" THEN TEST_CODE ELSE WRITE_CODE

\* a task_assignments dict, as the sequence of its items in insertion order:
\* distinct keys, in any order, each role with its action
TaskAssignmentInputs ==
    { s \in UNION { [1..n -> [agent_name : AgentNames, action : ActionTypes]] : n \in 0..MaxAssignments } :
        /\ \A i, j \in 1..Len(s) : i # j => s[i].agent_name # s[j].agent_name
        /\ \A i \in 1..Len(s) : s[i].action = RoleAction(s[i].agent_name) }

Keys(ta) == { ta[i].agent_name : i \in 1..Len(ta) }

\* ------------------------------------------------------------------------
\* State
\* ------------------------------------------------------------------------
VARIABLES
    agents,            \* self.agents: name -> agent object
    executions,        \* the TaskExecution objects, in creation order
    task_queue,        \* self.task_queue: references into executions
    completed_tasks,   \* self.completed_tasks: references into executions
    workflow_status,   \* self.workflow_status
    pc,                \* position of the running execute_workflow call
    task_assignments,  \* execute_workflow: its argument
    idx,               \* execute_workflow: position of the for loop
    results,           \* execute_workflow: local results
    errors,            \* execute_workflow: local errors
    task_execution,    \* execute_workflow: reference of the current record
    calls,             \* execute_task invocations made by the latest outermost call
    ret,               \* what the latest orchestrator call returned
    cto_ret,           \* what the latest call on the legacy CTOAgent returned
    subordinate_agents,  \* CTOAgent.subordinate_agents: items role -> agent, insertion order
    last_health_check,   \* CTOAgent.last_health_check: items role -> time, insertion order
    now,                 \* datetime.utcnow(), in seconds
    settings,            \* get_settings()
    hub_ret              \* what the latest call on the CTOAgent of src/agents/cto returned

orchestrator == <<agents, executions, task_queue, completed_tasks, workflow_status, pc,
                  task_assignments, idx, results, errors, task_execution, calls, ret>>

hub == <<subordinate_agents, last_health_check, now, settings, hub_ret>>
vars == <<orchestrator, cto_ret, hub>>

NoReturn == [op |-> "none"]

OrchestratorInit ==
    /\ agents = EmptyDict
    /\ executions = <<>>
    /\ task_queue = <<>>
    /\ completed_tasks = <<>>
    /\ workflow_status = [active |-> FALSE, current_tasks |-> EmptyDict,
                          progress |-> 0, total_tasks |-> 0]
    /\ pc = "idle"
    /\ task_assignments = <<>>
    /\ idx = 0
    /\ results = EmptyDict
    /\ errors = EmptyDict
    /\ task_execution = 0
    /\ calls = <<>>
    /\ ret = NoReturn
    /\ cto_ret = NoReturn

\* CTOAgent.__init__ of src/agents/cto, under the given ENABLE_SELF_HEALING
HubInit(enabled) ==
    /\ subordinate_agents = <<>>
    /\ last_health_check = <<>>
    /\ now = 0
    /\ settings = [ENABLE_SELF_HEALING |-> enabled]
    /\ hub_ret = NoReturn

\* the default configuration: ENABLE_SELF_HEALING is True
Init == OrchestratorInit /\ HubInit(TRUE)

locals == <<task_assignments, idx, results, errors, task_execution>>
tracker == <<executions, task_queue, completed_tasks, workflow_status>>

\* ------------------------------------------------------------------------
\* register_agent
\* ------------------------------------------------------------------------
RegisterAgent(agent_name, agent_instance) ==
    /\ pc = "idle"
    /\ IF ~hasattr(agent_instance, "execute_task")
       THEN /\ agents' = agents
            /\ ret' = [op |-> "register_agent", agent_name |-> agent_name,
                       agent_instance |-> agent_instance, raised |-> "ValueError"]
       ELSE /\ agents' = Put(agents, agent_name, agent_instance)
            /\ ret' = [op |-> "register_agent", agent_name |-> agent_name,
                       agent_instance |-> agent_instance,
                       raised |-> IF hasattr(agent_instance, "get_capabilities")
                                     /\ agent_instance.capabilities_raise
                                  THEN "Exception" ELSE NoneStr]
    /\ calls' = <<>>
    /\ UNCHANGED <<tracker, pc, locals, cto_ret, hub>>

\* ------------------------------------------------------------------------
\* execute_workflow
\* ------------------------------------------------------------------------
\* the entry of the call without the reset of the progress counter
StartWorkflowKeepsProgress(ta) ==
    /\ pc = "idle"
    /\ Len(task_queue) + Cardinality(Keys(ta) \cap DOMAIN agents) <= MaxQueue
    /\ workflow_status' = [workflow_status EXCEPT !.active = TRUE,
                                                  !.total_tasks = Len(ta)]
    /\ task_assignments' = ta
    /\ idx' = 1
    /\ results' = EmptyDict
    /\ errors' = EmptyDict
    /\ task_execution' = 0
    /\ calls' = <<>>
    /\ ret' = NoReturn
    /\ pc' = "loop"
    /\ UNCHANGED <<agents, executions, task_queue, completed_tasks, cto_ret, hub>>

\* entry of the call, up to the for loop
StartWorkflow(ta) ==
    /\ pc = "idle"
    /\ Len(task_queue) + Cardinality(Keys(ta) \cap DOMAIN agents) <= MaxQueue
    /\ workflow_status' = [workflow_status EXCEPT !.active = TRUE,
                                                  !.total_tasks = Len(ta),
                                                  !.progress = 0]
    /\ task_assignments' = ta
    /\ idx' = 1
    /\ results' = EmptyDict
    /\ errors' = EmptyDict
    /\ task_execution' = 0
    /\ calls' = <<>>
    /\ ret' = NoReturn
    /\ pc' = "loop"
    /\ UNCHANGED <<agents, executions, task_queue, completed_tasks, cto_ret, hub>>

\* the unregistered branch leaving the loop (break) instead of continuing
SkipUnregisteredBreaks ==
    /\ pc = "loop"
    /\ idx <= Len(task_assignments)
    /\ LET agent_name == task_assignments[idx].agent_name IN
        /\ agent_name \notin DOMAIN agents
        /\ errors' = Put(errors, agent_name, NotRegisteredMsg(agent_name))
    /\ idx' = Len(task_assignments) + 1
    /\ ret' = NoReturn
    /\ UNCHANGED <<agents, tracker, pc, task_assignments, results, task_execution, calls, cto_ret, hub>>

\* one iteration for a name that is not registered
SkipUnregistered ==
    /\ pc = "loop"
    /\ idx <= Len(task_assignments)
    /\ LET agent_name == task_assignments[idx].agent_name IN
        /\ agent_name \notin DOMAIN agents
        /\ errors' = Put(errors, agent_name, NotRegisteredMsg(agent_name))
    /\ idx' = idx + 1
    /\ ret' = NoReturn
    /\ UNCHANGED <<agents, tracker, pc, task_assignments, results, task_execution, calls, cto_ret, hub>>

\* a record created in the first state of the enumeration
CreatedStatusPending == PENDING

\* status a TaskExecution record is created with
CreatedStatus == IN_PROGRESS

\* one iteration for a registered name, up to the call of execute_task
Dispatch ==
    /\ pc = "loop"
    /\ idx <= Len(task_assignments)
    /\ LET agent_name == task_assignments[idx].agent_name
           task_assignment == Assignment(agent_name, task_assignments[idx].action)
       IN
        /\ agent_name \in DOMAIN agents
        /\ executions' = Append(executions,
               [task_id |-> TaskId(agent_name, Len(task_queue)),
                agent_name |-> agent_name,
                task_assignment |-> task_assignment,
                status |-> CreatedStatus,
                start_time |-> NoneStr,
                end_time |-> NoneStr,
                result |-> None,
                error_message |-> NoneStr])
        /\ task_execution' = Len(executions) + 1
        /\ task_queue' = Append(task_queue, Len(executions) + 1)
        /\ workflow_status' = [workflow_status EXCEPT
               !.current_tasks = Put(@, agent_name, "executing")]
    /\ pc' = "executing"
    /\ ret' = NoReturn
    /\ UNCHANGED <<agents, completed_tasks, task_assignments, idx, results, errors, calls, cto_ret, hub>>

\* the finally block without the removal from current_tasks
FinallyKeepsCurrent(agent_name) ==
    /\ completed_tasks' = Append(completed_tasks, task_execution)
    /\ workflow_status' = [workflow_status EXCEPT !.progress = @ + 1]
    /\ UNCHANGED task_queue

\* the finally block of the iteration
Finally(agent_name) ==
    /\ completed_tasks' = Append(completed_tasks, task_execution)
    /\ workflow_status' = [workflow_status EXCEPT
           !.current_tasks = IF agent_name \in DOMAIN @ THEN Del(@, agent_name) ELSE @,
           !.progress = @ + 1]
    /\ UNCHANGED task_queue

\* a return of execute_task judged by the success field of the result
TaskReturnsChecksSuccess(result) ==
    /\ pc = "executing"
    /\ LET agent_name == task_assignments[idx].agent_name IN
        /\ executions' = [executions EXCEPT
               ![task_execution].status = IF result.success THEN COMPLETED ELSE FAILED,
               ![task_execution].result = result]
        /\ results' = IF result.success THEN Put(results, agent_name, result) ELSE results
        /\ errors' = IF result.success THEN errors
                     ELSE Put(errors, agent_name, TaskFailedMsg("boom"))
        /\ calls' = Append(calls, [agent_name |-> agent_name, agent |-> agents[agent_name],
                                   raised |-> FALSE, value |-> result])
        /\ Finally(agent_name)
    /\ idx' = idx + 1
    /\ pc' = "loop"
    /\ ret' = NoReturn
    /\ UNCHANGED <<agents, task_assignments, task_execution, cto_ret, hub>>

\* execute_task returns
TaskReturns(result) ==
    /\ pc = "executing"
    /\ LET agent_name == task_assignments[idx].agent_name IN
        /\ executions' = [executions EXCEPT ![task_execution].status = COMPLETED,
                                            ![task_execution].result = result]
        /\ results' = Put(results, agent_name, result)
        /\ calls' = Append(calls, [agent_name |-> agent_name, agent |-> agents[agent_name],
                                   raised |-> FALSE, value |-> result])
        /\ Finally(agent_name)
    /\ idx' = idx + 1
    /\ pc' = "loop"
    /\ ret' = NoReturn
    /\ UNCHANGED <<agents, task_assignments, errors, task_execution, cto_ret, hub>>

\* the exception handler marking every record of the agent, not only the
\* current one
TaskRaisesMarksAll(e) ==
    /\ pc = "executing"
    /\ LET agent_name == task_assignments[idx].agent_name IN
        /\ executions' = [i \in 1..Len(executions) |->
               IF executions[i].agent_name = agent_name
               THEN [executions[i] EXCEPT !.status = FAILED,
                                          !.error_message = TaskFailedMsg(e)]
               ELSE executions[i]]
        /\ errors' = Put(errors, agent_name, TaskFailedMsg(e))
        /\ calls' = Append(calls, [agent_name |-> agent_name, agent |-> agents[agent_name],
                                   raised |-> TRUE, value |-> [exception |-> e]])
        /\ Finally(agent_name)
    /\ idx' = idx + 1
    /\ pc' = "loop"
    /\ ret' = NoReturn
    /\ UNCHANGED <<agents, task_assignments, results, task_execution, cto_ret, hub>>

\* the exception handler recording the failure and then leaving the loop
TaskRaisesAborts(e) ==
    /\ pc = "executing"
    /\ LET agent_name == task_assignments[idx].agent_name IN
        /\ executions' = [executions EXCEPT ![task_execution].status = FAILED,
                                            ![task_execution].error_message = TaskFailedMsg(e)]
        /\ errors' = Put(errors, agent_name, TaskFailedMsg(e))
        /\ calls' = Append(calls, [agent_name |-> agent_name, agent |-> agents[agent_name],
                                   raised |-> TRUE, value |-> [exception |-> e]])
        /\ Finally(agent_name)
    /\ idx' = Len(task_assignments) + 1
    /\ pc' = "loop"
    /\ ret' = NoReturn
    /\ UNCHANGED <<agents, task_assignments, results, task_execution, cto_ret, hub>>

\* execute_task raises Exception(e)
TaskRaises(e) ==
    /\ pc = "executing"
    /\ LET agent_name == task_assignments[idx].agent_name IN
        /\ executions' = [executions EXCEPT ![task_execution].status = FAILED,
                                            ![task_execution].error_message = TaskFailedMsg(e)]
        /\ errors' = Put(errors, agent_name, TaskFailedMsg(e))
        /\ calls' = Append(calls, [agent_name |-> agent_name, agent |-> agents[agent_name],
                                   raised |-> TRUE, value |-> [exception |-> e]])
        /\ Finally(agent_name)
    /\ idx' = idx + 1
    /\ pc' = "loop"
    /\ ret' = NoReturn
    /\ UNCHANGED <<agents, task_assignments, results, task_execution, cto_ret, hub>>

\* the result dict with success decided by the presence of a result
WorkflowResultAnySuccess(ta, res, errs) ==
    LET success_count == Cardinality(DOMAIN res)
        total_count == Len(ta)
    IN [success |-> success_count > 0 \/ total_count = 0,
        results |-> res,
        errors |-> errs,
        summary |-> [total_tasks |-> total_count,
                     successful |-> success_count,
                     failed |-> Cardinality(DOMAIN errs),
                     success_rate |-> SuccessRate(success_count, total_count)]]

\* the dict execute_workflow returns
WorkflowResult(ta, res, errs) ==
    LET success_count == Cardinality(DOMAIN res)
        total_count == Len(ta)
    IN [success |-> Cardinality(DOMAIN errs) = 0,
        results |-> res,
        errors |-> errs,
        summary |-> [total_tasks |-> total_count,
                     successful |-> success_count,
                     failed |-> Cardinality(DOMAIN errs),
                     success_rate |-> SuccessRate(success_count, total_count)]]

\* a finalization that also empties the registry
FinalizeWorkflowClearsRegistry ==
    /\ pc = "loop"
    /\ idx > Len(task_assignments)
    /\ workflow_status' = [workflow_status EXCEPT !.active = FALSE]
    /\ ret' = [op |-> "execute_workflow", task_assignments |-> task_assignments,
               value |-> WorkflowResult(task_assignments, results, errors)]
    /\ pc' = "idle"
    /\ task_assignments' = <<>>
    /\ idx' = 0
    /\ results' = EmptyDict
    /\ errors' = EmptyDict
    /\ task_execution' = 0
    /\ agents' = EmptyDict
    /\ UNCHANGED <<executions, task_queue, completed_tasks, calls, cto_ret, hub>>

\* after the loop: finalize and return
FinalizeWorkflow ==
    /\ pc = "loop"
    /\ idx > Len(task_assignments)
    /\ workflow_status' = [workflow_status EXCEPT !.active = FALSE]
    /\ ret' = [op |-> "execute_workflow", task_assignments |-> task_assignments,
               value |-> WorkflowResult(task_assignments, results, errors)]
    /\ pc' = "idle"
    /\ task_assignments' = <<>>
    /\ idx' = 0
    /\ results' = EmptyDict
    /\ errors' = EmptyDict
    /\ task_execution' = 0
    /\ UNCHANGED <<agents, executions, task_queue, completed_tasks, calls, cto_ret, hub>>

\* ------------------------------------------------------------------------
\* get_workflow_status, get_agent_status
\* ------------------------------------------------------------------------
Max(a, b) == IF a >= b THEN a ELSE b

GetWorkflowStatus ==
    /\ ret' = [op |-> "get_workflow_status",
               value |-> [workflow_active |-> workflow_status.active,
                          progress |-> IntToStr(workflow_status.progress) \o "/"
                                       \o IntToStr(workflow_status.total_tasks),
                          progress_percentage |->
                              [num |-> workflow_status.progress * 100,
                               den |-> Max(1, workflow_status.total_tasks)],
                          current_tasks |-> workflow_status.current_tasks,
                          registered_agents |-> DOMAIN agents,
                          queue_size |-> Len(task_queue),
                          completed_tasks |-> Len(completed_tasks)]]
    /\ calls' = IF pc = "idle" THEN <<>> ELSE calls
    /\ UNCHANGED <<agents, tracker, pc, locals, cto_ret, hub>>

GetAgentStatus(agent_name) ==
    /\ ret' = [op |-> "get_agent_status", agent_name |-> agent_name,
               value |-> IF agent_name \notin DOMAIN agents THEN NoneStr
                         ELSE IF hasattr(agents[agent_name], "get_status") THEN "ready"
                         ELSE "available"]
    /\ calls' = IF pc = "idle" THEN <<>> ELSE calls
    /\ UNCHANGED <<agents, tracker, pc, locals, cto_ret, hub>>

\* ------------------------------------------------------------------------
\* execute_single_task
\* ------------------------------------------------------------------------
ExecuteSingleTask(agent_name, action) ==
    /\ pc = "idle"
    /\ IF agent_name \notin DOMAIN agents
       THEN /\ ret' = [op |-> "execute_single_task", agent_name |-> agent_name,
                       value |-> [success |-> FALSE, error |-> NotRegisteredMsg(agent_name)]]
            /\ calls' = <<>>
       ELSE \/ \E result \in Payloads :
                /\ ret' = [op |-> "execute_single_task", agent_name |-> agent_name,
                           value |-> [success |-> TRUE, result |-> result, agent |-> agent_name]]
                /\ calls' = <<[agent_name |-> agent_name, agent |-> agents[agent_name],
                               raised |-> FALSE, value |-> result]>>
            \/ \E e \in ExceptionMessages :
                /\ ret' = [op |-> "execute_single_task", agent_name |-> agent_name,
                           value |-> [success |-> FALSE, error |-> e, agent |-> agent_name]]
                /\ calls' = <<[agent_name |-> agent_name, agent |-> agents[agent_name],
                               raised |-> TRUE, value |-> [exception |-> e]]>>
    /\ UNCHANGED <<agents, tracker, pc, locals, cto_ret, hub>>

\* ------------------------------------------------------------------------
\* Specification
\* ------------------------------------------------------------------------
Next ==
    \/ \E agent_name \in AgentNames, agent_instance \in Candidates :
           RegisterAgent(agent_name, agent_instance)
    \/ \E ta \in TaskAssignmentInputs : StartWorkflow(ta)
    \/ SkipUnregistered
    \/ Dispatch
    \/ \E result \in Payloads : TaskReturns(result)
    \/ \E e \in ExceptionMessages : TaskRaises(e)
    \/ FinalizeWorkflow
    \/ GetWorkflowStatus
    \/ \E agent_name \in AgentNames : GetAgentStatus(agent_name)
    \/ \E agent_name \in AgentNames, action \in ActionTypes :
           ExecuteSingleTask(agent_name, action)

Spec == Init /\ [][Next]_vars

\* ------------------------------------------------------------------------
\* A caller that writes into the snapshot get_workflow_status returned: its
\* 'current_tasks' entry is self.workflow_status['current_tasks'] itself, not
\* a copy, so the write lands in the orchestrator's dict.
\* ------------------------------------------------------------------------
CallerWritesSnapshot(key) ==
    /\ ret.op = "get_workflow_status"
    /\ workflow_status' = [workflow_status EXCEPT
           !.current_tasks = Put(@, key, "executing")]
    /\ ret' = [op |-> "caller_write", key |-> key]
    /\ UNCHANGED <<agents, executions, task_queue, completed_tasks, pc, locals, calls, cto_ret, hub>>

NextCaller ==
    \/ Next
    \/ \E key \in AgentNames : CallerWritesSnapshot(key)

SpecCaller == Init /\ [][NextCaller]_vars

\* ========================================================================
\* The legacy CTO agent (src/setup/legacy/main_llm_agent.py): ProjectAnalyzer,
\* WorkflowOrchestrator and CTOAgent. A text is the sequence of its characters.
\* ========================================================================
AgentRoles == {"coder1", "coder2", "tester"}
DEPLOY_APPLICATION == "Deploy application"

UpperCase == <<"A", "B", "C", "D", "E", "F", "G", "H", "I", "J", "K", "L", "M", "N", "O", "P",
             "Q", "R", "S", "T", "U", "V", "W", "X", "Y", "Z">>
LowerCase == <<"a", "b", "c", "d", "e", "f", "g", "h", "i", "j", "k", "l", "m", "n", "o", "p",
             "q", "r", "s", "t", "u", "v", "w", "x", "y", "z">>
Whitespace == {" ", "\t", "\n"}

\* str.lower()
LowerChar(c) ==
    IF \E i \in 1..Len(UpperCase) : UpperCase[i] = c
    THEN LowerCase[CHOOSE i \in 1..Len(UpperCase) : UpperCase[i] = c]
    ELSE c
Lower(text) == [i \in 1..Len(text) |-> LowerChar(text[i])]

\* str.strip()
RECURSIVE LStrip(_)
LStrip(text) == IF text # <<>> /\ Head(text) \in Whitespace THEN LStrip(Tail(text)) ELSE text
RECURSIVE RStrip(_)
RStrip(text) ==
    IF text # <<>> /\ text[Len(text)] \in Whitespace
    THEN RStrip(SubSeq(text, 1, Len(text) - 1)) ELSE text
Strip(text) == RStrip(LStrip(text))

\* word in text
Contains(text, word) ==
    \E i \in 0..(Len(text) - Len(word)) : SubSeq(text, i + 1, i + Len(word)) = word
\* text.startswith(word)
StartsWith(text, word) ==
    Len(text) >= Len(word) /\ SubSeq(text, 1, Len(word)) = word

\* text.split(sep) for a one-character separator
Split(text, sep) ==
    LET at == { i \in 1..Len(text) : text[i] = sep }
        \* position of the k-th separator; 0 and Len(text) + 1 bound the text
        Cut(k) == IF k = 0 THEN 0
                  ELSE IF k > Cardinality(at) THEN Len(text) + 1
                  ELSE CHOOSE i \in at : Cardinality({ j \in at : j < i }) = k - 1
    IN [k \in 1..(Cardinality(at) + 1) |-> SubSeq(text, Cut(k - 1) + 1, Cut(k) - 1)]

\* separator.join(words) on strings
RECURSIVE Join(_, _)
Join(separator, words) ==
    IF words = <<>> THEN ""
    ELSE IF Len(words) = 1 THEN words[1]
    ELSE words[1] \o separator \o Join(separator, Tail(words))

\* the keyword table with 'web' missing from the frontend keywords
KeywordsWithoutWeb ==
    << [feature |-> "authentication",
        keywords |-> { <<"l", "o", "g", "i", "n">>,
                      <<"a", "u", "t", "h">>,
                      <<"s", "i", "g", "n", "i", "n">>,
                      <<"s", "i", "g", "n", "u", "p">>,
                      <<"p", "a", "s", "s", "w", "o", "r", "d">>,
                      <<"u", "s", "e", "r", " ", "m", "a", "n", "a", "g", "e", "m", "e", "n", "t">> }],
       [feature |-> "database",
        keywords |-> { <<"d", "a", "t", "a", "b", "a", "s", "e">>,
                      <<"d", "b">>,
                      <<"s", "q", "l">>,
                      <<"n", "o", "s", "q", "l">>,
                      <<"s", "t", "o", "r", "a", "g", "e">>,
                      <<"p", "e", "r", "s", "i", "s", "t">> }],
       [feature |-> "api",
        keywords |-> { <<"a", "p", "i">>,
                      <<"r", "e", "s", "t">>,
                      <<"e", "n", "d", "p", "o", "i", "n", "t">>,
                      <<"s", "e", "r", "v", "i", "c", "e">>,
                      <<"b", "a", "c", "k", "e", "n", "d">> }],
       [feature |-> "frontend",
        keywords |-> { <<"f", "r", "o", "n", "t", "e", "n", "d">>,
                      <<"u", "i">>,
                      <<"i", "n", "t", "e", "r", "f", "a", "c", "e">>,
                      <<"r", "e", "a", "c", "t">>,
                      <<"v", "u", "e">>,
                      <<"a", "n", "g", "u", "l", "a", "r">> }],
       [feature |-> "security",
        keywords |-> { <<"s", "e", "c", "u", "r", "i", "t", "y">>,
                      <<"s", "e", "c", "u", "r", "e">>,
                      <<"e", "n", "c", "r", "y", "p", "t", "i", "o", "n">>,
                      <<"v", "u", "l", "n", "e", "r", "a", "b", "i", "l", "i", "t", "y">>,
                      <<"s", "s", "l">>,
                      <<"h", "t", "t", "p", "s">> }],
       [feature |-> "deployment",
        keywords |-> { <<"d", "e", "p", "l", "o", "y">>,
                      <<"p", "r", "o", "d", "u", "c", "t", "i", "o", "n">>,
                      <<"s", "t", "a", "g", "i", "n", "g">>,
                      <<"d", "o", "c", "k", "e", "r">>,
                      <<"k", "u", "b", "e", "r", "n", "e", "t", "e", "s">>,
                      <<"c", "l", "o", "u", "d">> }],
       [feature |-> "testing",
        keywords |-> { <<"t", "e", "s", "t">>,
                      <<"t", "e", "s", "t", "i", "n", "g">>,
                      <<"u", "n", "i", "t", " ", "t", "e", "s", "t">>,
                      <<"i", "n", "t", "e", "g", "r", "a", "t", "i", "o", "n">>,
                      <<"q", "a">> }],
       [feature |-> "monitoring",
        keywords |-> { <<"m", "o", "n", "i", "t", "o", "r">>,
                      <<"l", "o", "g", "g", "i", "n", "g">>,
                      <<"m", "e", "t", "r", "i", "c", "s">>,
                      <<"a", "n", "a", "l", "y", "t", "i", "c", "s">>,
                      <<"p", "e", "r", "f", "o", "r", "m", "a", "n", "c", "e">> }] >>

\* ProjectAnalyzer.keywords, in the order of the dict
Keywords ==
    << [feature |-> "authentication",
        keywords |-> { <<"l", "o", "g", "i", "n">>,
                      <<"a", "u", "t", "h">>,
                      <<"s", "i", "g", "n", "i", "n">>,
                      <<"s", "i", "g", "n", "u", "p">>,
                      <<"p", "a", "s", "s", "w", "o", "r", "d">>,
                      <<"u", "s", "e", "r", " ", "m", "a", "n", "a", "g", "e", "m", "e", "n", "t">> }],
       [feature |-> "database",
        keywords |-> { <<"d", "a", "t", "a", "b", "a", "s", "e">>,
                      <<"d", "b">>,
                      <<"s", "q", "l">>,
                      <<"n", "o", "s", "q", "l">>,
                      <<"s", "t", "o", "r", "a", "g", "e">>,
                      <<"p", "e", "r", "s", "i", "s", "t">> }],
       [feature |-> "api",
        keywords |-> { <<"a", "p", "i">>,
                      <<"r", "e", "s", "t">>,
                      <<"e", "n", "d", "p", "o", "i", "n", "t">>,
                      <<"s", "e", "r", "v", "i", "c", "e">>,
                      <<"b", "a", "c", "k", "e", "n", "d">> }],
       [feature |-> "frontend",
        keywords |-> { <<"f", "r", "o", "n", "t", "e", "n", "d">>,
                      <<"u", "i">>,
                      <<"i", "n", "t", "e", "r", "f", "a", "c", "e">>,
                      <<"w", "e", "b">>,
                      <<"r", "e", "a", "c", "t">>,
                      <<"v", "u", "e">>,
                      <<"a", "n", "g", "u", "l", "a", "r">> }],
       [feature |-> "security",
        keywords |-> { <<"s", "e", "c", "u", "r", "i", "t", "y">>,
                      <<"s", "e", "c", "u", "r", "e">>,
                      <<"e", "n", "c", "r", "y", "p", "t", "i", "o", "n">>,
                      <<"v", "u", "l", "n", "e", "r", "a", "b", "i", "l", "i", "t", "y">>,
                      <<"s", "s", "l">>,
                      <<"h", "t", "t", "p", "s">> }],
       [feature |-> "deployment",
        keywords |-> { <<"d", "e", "p", "l", "o", "y">>,
                      <<"p", "r", "o", "d", "u", "c", "t", "i", "o", "n">>,
                      <<"s", "t", "a", "g", "i", "n", "g">>,
                      <<"d", "o", "c", "k", "e", "r">>,
                      <<"k", "u", "b", "e", "r", "n", "e", "t", "e", "s">>,
                      <<"c", "l", "o", "u", "d">> }],
       [feature |-> "testing",
        keywords |-> { <<"t", "e", "s", "t">>,
                      <<"t", "e", "s", "t", "i", "n", "g">>,
                      <<"u", "n", "i", "t", " ", "t", "e", "s", "t">>,
                      <<"i", "n", "t", "e", "g", "r", "a", "t", "i", "o", "n">>,
                      <<"q", "a">> }],
       [feature |-> "monitoring",
        keywords |-> { <<"m", "o", "n", "i", "t", "o", "r">>,
                      <<"l", "o", "g", "g", "i", "n", "g">>,
                      <<"m", "e", "t", "r", "i", "c", "s">>,
                      <<"a", "n", "a", "l", "y", "t", "i", "c", "s">>,
                      <<"p", "e", "r", "f", "o", "r", "m", "a", "n", "c", "e">> }] >>

FeatureTags == { Keywords[i].feature : i \in 1..Len(Keywords) }

UrgentWords ==
    { <<"u", "r", "g", "e", "n", "t">>,
      <<"a", "s", "a", "p">>,
      <<"i", "m", "m", "e", "d", "i", "a", "t", "e", "l", "y">>,
      <<"r", "u", "s", "h">> }
DeferWords ==
    { <<"f", "u", "t", "u", "r", "e">>,
      <<"l", "a", "t", "e", "r">>,
      <<"e", "v", "e", "n", "t", "u", "a", "l", "l", "y">> }
SimpleWords ==
    { <<"s", "i", "m", "p", "l", "e">>,
      <<"b", "a", "s", "i", "c">>,
      <<"s", "m", "a", "l", "l">>,
      <<"m", "i", "n", "i", "m", "a", "l">> }
ComplexWords ==
    { <<"c", "o", "m", "p", "l", "e", "x">>,
      <<"e", "n", "t", "e", "r", "p", "r", "i", "s", "e">>,
      <<"l", "a", "r", "g", "e", "-", "s", "c", "a", "l", "e">>,
      <<"a", "d", "v", "a", "n", "c", "e", "d">> }
GoalVerbs ==
    { <<"c", "r", "e", "a", "t", "e">>,
      <<"b", "u", "i", "l", "d">>,
      <<"d", "e", "v", "e", "l", "o", "p">>,
      <<"i", "m", "p", "l", "e", "m", "e", "n", "t">>,
      <<"d", "e", "s", "i", "g", "n">> }
GoalWords ==
    { <<"n", "e", "e", "d">>,
      <<"w", "a", "n", "t">> }

\* "Develop the requested application"
DefaultGoals ==
    << <<"D", "e", "v", "e", "l", "o", "p", " ", "t", "h", "e", " ", "r", "e", "q", "u", "e",
       "s", "t", "e", "d", " ", "a", "p", "p", "l", "i", "c", "a", "t", "i", "o", "n">> >>

\* ProjectAnalyzer._extract_goals
IsGoal(sentence) ==
    /\ sentence # <<>>
    /\ \/ \E verb \in GoalVerbs : StartsWith(Lower(sentence), verb)
       \/ \E word \in GoalWords : Contains(Lower(sentence), word)
extract_goals(prompt) ==
    LET sentences == Split(prompt, ".")
        stripped == [i \in 1..Len(sentences) |-> Strip(sentences[i])]
        goals == SelectSeq(stripped, IsGoal)
    IN IF goals # <<>> THEN goals ELSE DefaultGoals

\* ProjectAnalyzer.analyze_prompt: no exception is raised for any text
analyze_prompt(user_prompt) ==
    LET prompt_lower == Lower(user_prompt)
        Detected(entry) == \E keyword \in entry.keywords : Contains(prompt_lower, keyword)
        detected == SelectSeq(Keywords, Detected)
        detected_features == [i \in 1..Len(detected) |-> detected[i].feature]
        urgency == IF \E word \in UrgentWords : Contains(prompt_lower, word) THEN "high"
                   ELSE IF \E word \in DeferWords : Contains(prompt_lower, word) THEN "low"
                   ELSE "normal"
        complexity == IF \E word \in SimpleWords : Contains(prompt_lower, word) THEN "low"
                      ELSE IF \E word \in ComplexWords : Contains(prompt_lower, word) THEN "high"
                      ELSE "medium"
    IN [goals |-> extract_goals(user_prompt),
        features |-> detected_features,
        constraints |-> [urgency |-> urgency, complexity |-> complexity],
        original_prompt |-> user_prompt]

\* ------------------------------------------------------------------------
\* Task assignments: a dict agent -> TaskAssignment, as the sequence of its
\* items in insertion order
\* ------------------------------------------------------------------------
\* CTOAgent.agent_capabilities
RoleTitle(agent) ==
    IF agent = "coder1" THEN "Senior Backend Developer"
    ELSE IF agent = "coder2" THEN "Frontend Developer"
    ELSE "Software Tester"
CapabilityAction(agent) == IF agent = "tester" THEN TEST_CODE ELSE WRITE_CODE

TaskAssignment(role, action, task) == [role |-> role, action |-> action, task |-> task]
ToDict(assignment) ==
    [role |-> assignment.role, action |-> assignment.action, task |-> assignment.task]

Item(agent, assignment) == [agent |-> agent, assignment |-> assignment]
AgentsOf(assignments) == { assignments[i].agent : i \in 1..Len(assignments) }
InSeq(x, seq) == \E i \in 1..Len(seq) : seq[i] = x

\* the backend branch of _decompose_and_assign with 'api' left out of its trigger
BackendItemsNoApi(analysis) ==
    LET features == analysis.features
        backend_tasks ==
            (IF InSeq("authentication", features)
             THEN <<"user authentication and authorization system">> ELSE <<>>)
            \o (IF InSeq("database", features)
                THEN <<"database schema and data models">> ELSE <<>>)
            \o (IF InSeq("api", features)
                THEN <<"REST API endpoints and business logic">> ELSE <<>>)
    IN IF \E feature \in {"authentication", "database"} : InSeq(feature, features)
       THEN << Item("coder1", TaskAssignment(RoleTitle("coder1"), CapabilityAction("coder1"),
                                             "Implement " \o Join(", ", backend_tasks))) >>
       ELSE <<>>

\* _decompose_and_assign: the backend tasks
BackendItems(analysis) ==
    LET features == analysis.features
        backend_tasks ==
            (IF InSeq("authentication", features)
             THEN <<"user authentication and authorization system">> ELSE <<>>)
            \o (IF InSeq("database", features)
                THEN <<"database schema and data models">> ELSE <<>>)
            \o (IF InSeq("api", features)
                THEN <<"REST API endpoints and business logic">> ELSE <<>>)
    IN IF \E feature \in {"authentication", "database", "api"} : InSeq(feature, features)
       THEN << Item("coder1", TaskAssignment(RoleTitle("coder1"), CapabilityAction("coder1"),
                                             "Implement " \o Join(", ", backend_tasks))) >>
       ELSE <<>>

\* _decompose_and_assign: the frontend task
FrontendItems(analysis) ==
    LET features == analysis.features
        frontend_task ==
            "Develop responsive user interface and client-side functionality"
            \o (IF InSeq("authentication", features)
                THEN " including login/signup forms" ELSE "")
    IN IF InSeq("frontend", features)
       THEN << Item("coder2", TaskAssignment(RoleTitle("coder2"), CapabilityAction("coder2"),
                                             frontend_task)) >>
       ELSE <<>>

\* the testing task assigned only when the 'testing' feature was detected
TesterItemsIfDetected(analysis) ==
    IF InSeq("testing", analysis.features)
    THEN << Item("tester", TaskAssignment(RoleTitle("tester"), CapabilityAction("tester"),
                 "Perform comprehensive unit and integration tests on all implemented components")) >>
    ELSE <<>>

\* _decompose_and_assign: the testing task, always assigned
TesterItems(analysis) ==
    LET complexity == analysis.constraints.complexity
        test_scope ==
            IF complexity = "high"
            THEN "comprehensive unit and integration tests" \o " with performance and load testing"
            ELSE IF complexity = "low"
            THEN "basic unit tests and functionality verification"
            ELSE "comprehensive unit and integration tests"
    IN << Item("tester", TaskAssignment(RoleTitle("tester"), CapabilityAction("tester"),
              "Perform " \o test_scope \o " on all implemented components")) >>

\* CTOAgent._decompose_and_assign
decompose_and_assign(analysis) ==
    BackendItems(analysis) \o FrontendItems(analysis) \o TesterItems(analysis)

\* WorkflowOrchestrator.validate_workflow
validate_workflow(assignments) ==
    LET has_deployment ==
            \E i \in 1..Len(assignments) : assignments[i].assignment.action = DEPLOY_APPLICATION
        has_testing ==
            \E i \in 1..Len(assignments) : assignments[i].assignment.action = TEST_CODE
    IN ~(has_deployment /\ ~has_testing)

\* priority_map.get(action, 999)
Priority(action) ==
    IF action = WRITE_CODE THEN 1 ELSE IF action = TEST_CODE THEN 3 ELSE 999

\* an insertion that puts x before the elements of equal key
InsertBeforeEqual(sorted, x, key) ==
    LET before == SelectSeq(sorted, LAMBDA y : key[y] < key[x])
        after == SelectSeq(sorted, LAMBDA y : key[y] >= key[x])
    IN before \o <<x>> \o after

\* sorted(): one insertion of the stable sort, x goes after the elements
\* whose key is not larger
Insert(sorted, x, key) ==
    LET before == SelectSeq(sorted, LAMBDA y : key[y] <= key[x])
        after == SelectSeq(sorted, LAMBDA y : key[y] > key[x])
    IN before \o <<x>> \o after

\* sorted(seq, key=...)
RECURSIVE Sorted(_, _)
Sorted(seq, key) ==
    IF seq = <<>> THEN <<>>
    ELSE Insert(Sorted(SubSeq(seq, 1, Len(seq) - 1), key), seq[Len(seq)], key)

\* WorkflowOrchestrator.get_execution_order
get_execution_order(assignments) ==
    LET keys == [i \in 1..Len(assignments) |-> assignments[i].agent]
        key == [agent \in AgentsOf(assignments) |->
                   Priority(assignments[CHOOSE i \in 1..Len(assignments) :
                                            assignments[i].agent = agent].assignment.action)]
    IN Sorted(keys, key)

MandatoryTesting ==
    Item("tester", TaskAssignment(RoleTitle("tester"), CapabilityAction("tester"),
                                  "Perform mandatory testing before deployment"))

\* a compliance fix that sets the tester assignment whether or not it is there
ensure_workflow_compliance_overwriting(assignments, analysis) ==
    IF "tester" \notin AgentsOf(assignments)
    THEN Append(assignments, MandatoryTesting)
    ELSE [i \in 1..Len(assignments) |->
             IF assignments[i].agent = "tester" THEN MandatoryTesting ELSE assignments[i]]

\* CTOAgent._ensure_workflow_compliance
ensure_workflow_compliance(assignments, analysis) ==
    IF "tester" \notin AgentsOf(assignments)
    THEN Append(assignments, MandatoryTesting)
    ELSE assignments

\* CTOAgent._format_output
format_output(assignments) ==
    [i \in 1..Len(assignments) |->
        [agent |-> assignments[i].agent, value |-> ToDict(assignments[i].assignment)]]

\* the test of an empty prompt without the strip()
IsBlankNoStrip(user_prompt) == user_prompt = <<>>

\* not user_prompt or not user_prompt.strip()
IsBlank(user_prompt) == user_prompt = <<>> \/ Strip(user_prompt) = <<>>

ErrorOutput(e) ==
    << [agent |-> "error",
        value |-> [role |-> "System", action |-> "Error",
                   task |-> "Error processing user request: " \o e]] >>

\* CTOAgent.process_user_request: what it returns (value) and the steps it ran
process_user_request(user_prompt) ==
    IF IsBlank(user_prompt)
    THEN [value |-> ErrorOutput("User prompt cannot be empty"), steps |-> <<>>]
    ELSE LET analysis == analyze_prompt(user_prompt)
             decomposed == decompose_and_assign(analysis)
             valid == validate_workflow(decomposed)
             final == IF ~valid THEN ensure_workflow_compliance(decomposed, analysis)
                      ELSE decomposed
         IN [value |-> format_output(final),
             steps |-> <<"analyze_prompt", "_decompose_and_assign", "validate_workflow">>
                       \o (IF ~valid THEN <<"_ensure_workflow_compliance">> ELSE <<>>)
                       \o <<"get_execution_order", "_format_output">>,
             analysis |-> analysis,
             execution_order |-> get_execution_order(final)]

\* ------------------------------------------------------------------------
\* Inputs of the legacy CTO agent
\* ------------------------------------------------------------------------
\* longest text made of whitespace only
MaxBlankLen == 2

BlankTexts == UNION { [1..n -> Whitespace] : n \in 0..MaxBlankLen }

\* the scenarios of main() and get_example_output()
\* "Create a web application with user authentication and secure login functionality"
ExamplePrompt ==
    <<"C", "r", "e", "a", "t", "e", " ", "a", " ", "w", "e", "b", " ", "a", "p", "p", "l", "i",
    "c", "a", "t", "i", "o", "n", " ", "w", "i", "t", "h", " ", "u", "s", "e", "r", " ", "a",
    "u", "t", "h", "e", "n", "t", "i", "c", "a", "t", "i", "o", "n", " ", "a", "n", "d", " ",
    "s", "e", "c", "u", "r", "e", " ", "l", "o", "g", "i", "n", " ", "f", "u", "n", "c", "t",
    "i", "o", "n", "a", "l", "i", "t", "y">>
\* "Build a simple REST API for a todo list application with database storage"
TodoPrompt ==
    <<"B", "u", "i", "l", "d", " ", "a", " ", "s", "i", "m", "p", "l", "e", " ", "R", "E", "S",
    "T", " ", "A", "P", "I", " ", "f", "o", "r", " ", "a", " ", "t", "o", "d", "o", " ", "l",
    "i", "s", "t", " ", "a", "p", "p", "l", "i", "c", "a", "t", "i", "o", "n", " ", "w", "i",
    "t", "h", " ", "d", "a", "t", "a", "b", "a", "s", "e", " ", "s", "t", "o", "r", "a", "g",
    "e">>
\* "Develop a complex e-commerce platform with payment processing and inventory management"
CommercePrompt ==
    <<"D", "e", "v", "e", "l", "o", "p", " ", "a", " ", "c", "o", "m", "p", "l", "e", "x", " ",
    "e", "-", "c", "o", "m", "m", "e", "r", "c", "e", " ", "p", "l", "a", "t", "f", "o", "r",
    "m", " ", "w", "i", "t", "h", " ", "p", "a", "y", "m", "e", "n", "t", " ", "p", "r", "o",
    "c", "e", "s", "s", "i", "n", "g", " ", "a", "n", "d", " ", "i", "n", "v", "e", "n", "t",
    "o", "r", "y", " ", "m", "a", "n", "a", "g", "e", "m", "e", "n", "t">>

PromptInputs == BlankTexts \cup {ExamplePrompt, TodoPrompt, CommercePrompt}

\* an analysis for every set of features and every complexity
AnalysisInputs ==
    { [goals |-> DefaultGoals,
       features |-> LET tagged == SelectSeq(Keywords, LAMBDA entry : entry.feature \in tags)
                    IN [i \in 1..Len(tagged) |-> tagged[i].feature],
       constraints |-> [urgency |-> "normal", complexity |-> complexity],
       original_prompt |-> <<>>] :
      tags \in SUBSET FeatureTags,
      complexity \in {"low", "medium", "high"} }

\* every dict of assignments with distinct agents, in every insertion order,
\* with the two actions of the prototype and the deployment action
AssignmentInputs ==
    { s \in UNION { [1..n -> { Item(agent, TaskAssignment(RoleTitle(agent), action, "task")) :
                                 agent \in AgentRoles,
                                 action \in {WRITE_CODE, TEST_CODE, DEPLOY_APPLICATION} }] :
                    n \in 0..Cardinality(AgentRoles) } :
        \A i, j \in 1..Len(s) : i # j => s[i].agent # s[j].agent }

\* ------------------------------------------------------------------------
\* The calls on the legacy CTO agent
\* ------------------------------------------------------------------------
AnalyzePrompt(user_prompt) ==
    /\ cto_ret' = [op |-> "analyze_prompt", user_prompt |-> user_prompt,
                   raised |-> NoneStr, value |-> analyze_prompt(user_prompt)]
    /\ UNCHANGED <<orchestrator, hub>>

DecomposeAndAssign(analysis) ==
    /\ cto_ret' = [op |-> "_decompose_and_assign", analysis |-> analysis,
                   value |-> decompose_and_assign(analysis)]
    /\ UNCHANGED <<orchestrator, hub>>

ValidateWorkflow(assignments) ==
    /\ cto_ret' = [op |-> "validate_workflow", assignments |-> assignments,
                   value |-> validate_workflow(assignments)]
    /\ UNCHANGED <<orchestrator, hub>>

GetExecutionOrder(assignments) ==
    /\ cto_ret' = [op |-> "get_execution_order", assignments |-> assignments,
                   value |-> get_execution_order(assignments)]
    /\ UNCHANGED <<orchestrator, hub>>

EnsureWorkflowCompliance(assignments, analysis) ==
    /\ cto_ret' = [op |-> "_ensure_workflow_compliance", assignments |-> assignments,
                   analysis |-> analysis,
                   value |-> ensure_workflow_compliance(assignments, analysis)]
    /\ UNCHANGED <<orchestrator, hub>>

ProcessUserRequest(user_prompt) ==
    /\ cto_ret' = [op |-> "process_user_request", user_prompt |-> user_prompt,
                   result |-> process_user_request(user_prompt)]
    /\ UNCHANGED <<orchestrator, hub>>

NextCTO ==
    \/ \E user_prompt \in PromptInputs : AnalyzePrompt(user_prompt)
    \/ \E analysis \in AnalysisInputs : DecomposeAndAssign(analysis)
    \/ \E assignments \in AssignmentInputs : ValidateWorkflow(assignments)
    \/ \E assignments \in AssignmentInputs : GetExecutionOrder(assignments)
    \/ \E assignments \in AssignmentInputs :
           EnsureWorkflowCompliance(assignments, analyze_prompt(ExamplePrompt))
    \/ \E user_prompt \in PromptInputs : ProcessUserRequest(user_prompt)

SpecCTO == Init /\ [][NextCTO]_vars

\* ========================================================================
\* The message hub (src/agents/cto/cto_agent.py, src/protocols/base_agent.py,
\* src/core/config.py): CTOAgent over BaseAgent
\* ========================================================================
CTO == "cto"
\* AgentRole of the protocol
ProtocolRoles ==
    {CTO, "coding", "testing", "security", "data", "documentation", "devops", "finance"}

\* Settings.HEALTH_CHECK_INTERVAL, in seconds
HEALTH_CHECK_INTERVAL == 60
\* timedelta.seconds is the seconds within the day, the days are in timedelta.days
SecondsPerDay == 86400

\* a dict as the sequence of its items, in insertion order
Entry(key, value) == [key |-> key, value |-> value]
EntryKeys(items) == { items[i].key : i \in 1..Len(items) }
EntryGet(items, key) == items[CHOOSE i \in 1..Len(items) : items[i].key = key].value
EntrySet(items, key, value) ==
    IF key \in EntryKeys(items)
    THEN [i \in 1..Len(items) |->
             IF items[i].key = key THEN Entry(key, value) ELSE items[i]]
    ELSE Append(items, Entry(key, value))

\* dict.get(key, default)
DictGet(dict, key, default) == IF key \in DOMAIN dict THEN dict[key] ELSE default

\* AgentMessage
AgentMessage(sender, receiver, message_type, content) ==
    [sender |-> sender, receiver |-> receiver, message_type |-> message_type,
     content |-> content, priority |-> 1, trace_id |-> NoneStr]

\* BaseAgent.send_message, called on the CTO
send_message(to_role, message_type, content) ==
    AgentMessage(CTO, to_role, message_type, content)

\* task_map of _determine_target_agent
TaskMap ==
    [code |-> "coding", test |-> "testing", security |-> "security", data |-> "data",
     documentation |-> "documentation", deployment |-> "devops", finance |-> "finance"]

\* CTOAgent._determine_target_agent
determine_target_agent(task_type) == DictGet(TaskMap, task_type, CTO)

\* CTOAgent._handle_task_request
handle_task_request(message) ==
    LET task == DictGet(message.content, "task", EmptyDict)
        task_type == DictGet(task, "type", NoneStr)
        target_role == determine_target_agent(task_type)
    IN IF task_type = NoneStr \/ task_type = ""
       THEN AgentMessage(CTO, message.sender, "error", [error |-> "Missing task type"])
       ELSE IF target_role \in EntryKeys(subordinate_agents)
       THEN send_message(target_role, "task_assignment", [task |-> task])
       ELSE AgentMessage(CTO, message.sender, "error",
                         [error |-> "No agent available for task type: " \o task_type])

\* CTOAgent._handle_status_update
handle_status_update(message) ==
    AgentMessage(CTO, message.sender, "ack", [received |-> TRUE])

\* a call of a subordinate's self_heal
HealCall(role, raised) == [role |-> role, raised |-> raised]
NoCalls == [calls |-> <<>>, propagated |-> FALSE]

\* a recovery that lets the exception of the subordinate's self_heal through
recover_agent_propagating(role, raising) ==
    IF role \in EntryKeys(subordinate_agents)
    THEN [calls |-> <<HealCall(role, role \in raising)>>, propagated |-> role \in raising]
    ELSE NoCalls

\* CTOAgent._recover_agent: the calls of self_heal it makes on subordinates
\* (those of the roles in raising raise) and whether an exception leaves it
recover_agent(role, raising) ==
    IF role \in EntryKeys(subordinate_agents)
    THEN [calls |-> <<HealCall(role, role \in raising)>>, propagated |-> FALSE]
    ELSE NoCalls

\* CTOAgent._handle_error: the calls made, the exception that leaves it and
\* the message it returns
handle_error(message, raising) ==
    LET recovery == IF settings.ENABLE_SELF_HEALING
                    THEN recover_agent(message.sender, raising) ELSE NoCalls
    IN [calls |-> recovery.calls,
        raised |-> IF recovery.propagated THEN "Exception" ELSE NoneStr,
        value |-> IF recovery.propagated THEN NoneStr
                  ELSE AgentMessage(CTO, message.sender, "error_response",
                                    [action |-> "self_heal_initiated"])]

\* CTOAgent.process_message
process_message(message, raising) ==
    IF message.message_type = "task_request"
    THEN [calls |-> <<>>, raised |-> NoneStr, value |-> handle_task_request(message)]
    ELSE IF message.message_type = "status_update"
    THEN [calls |-> <<>>, raised |-> NoneStr, value |-> handle_status_update(message)]
    ELSE IF message.message_type = "error_report"
    THEN handle_error(message, raising)
    ELSE [calls |-> <<>>, raised |-> NoneStr,
          value |-> AgentMessage(CTO, message.sender, "error",
                                 [error |-> "Unknown message type"])]

\* a loop over the subordinates that an exception of a poll ends
PolledUntilRaise(items, raising) ==
    LET first_raise == { i \in 1..Len(items) :
                           /\ items[i].key \in raising
                           /\ \A j \in 1..(i - 1) : items[j].key \notin raising }
    IN IF first_raise = {} THEN items
       ELSE SubSeq(items, 1, CHOOSE i \in first_raise : TRUE)

\* health_check: the subordinates its loop polls; the try is inside the loop
Polled(items, raising) == items

\* what a subordinate's health_check returns
AgentHealth(role) == [status |-> "healthy", role |-> role]
\* the entry made for a poll that raised
AgentError(e) == [status |-> "error", error |-> e]

\* CTOAgent.health_check: the dict it returns (the polls of the roles in
\* raising raise) and the last_health_check it leaves
health_check(raising) ==
    LET polled == Polled(subordinate_agents, raising)
        roles == [i \in 1..Len(polled) |-> polled[i].key]
        Healthy(role) == role \notin raising
        Stamp(checks, role) == EntrySet(checks, role, now)
        RECURSIVE StampAll(_, _)
        StampAll(checks, rs) ==
            IF rs = <<>> THEN checks ELSE StampAll(Stamp(checks, Head(rs)), Tail(rs))
    IN [value |-> [status |-> IF \E i \in 1..Len(roles) : roles[i] \in raising
                              THEN "degraded" ELSE "healthy",
                   agents |-> [i \in 1..Len(roles) |->
                                  Entry(roles[i],
                                        IF roles[i] \in raising
                                        THEN AgentError("boom") ELSE AgentHealth(roles[i]))],
                   timestamp |-> now],
        last_health_check |-> StampAll(last_health_check, SelectSeq(roles, Healthy))]

\* (current_time - last_check).seconds
Seconds(current_time, last_check) == (current_time - last_check) % SecondsPerDay

\* CTOAgent.self_heal: the loop over last_health_check
RECURSIVE HealLoop(_, _)
HealLoop(items, raising) ==
    IF items = <<>> THEN NoCalls
    ELSE LET recovery == IF Seconds(now, Head(items).value) > HEALTH_CHECK_INTERVAL
                         THEN recover_agent(Head(items).key, raising) ELSE NoCalls
         IN IF recovery.propagated THEN recovery
            ELSE LET rest == HealLoop(Tail(items), raising)
                 IN [calls |-> recovery.calls \o rest.calls, propagated |-> rest.propagated]

\* CTOAgent.self_heal: False when an exception reaches its handler
self_heal(raising) ==
    LET loop == HealLoop(last_health_check, raising)
    IN [calls |-> loop.calls, value |-> ~loop.propagated]

\* ------------------------------------------------------------------------
\* Inputs of the hub
\* ------------------------------------------------------------------------
\* the roles that get a subordinate
SubordinateRoles == {CTO, "coding"}
\* the senders of the messages
Senders == {"coding", "finance"}
\* the instants the clock is read at
ClockValues == {0, HEALTH_CHECK_INTERVAL, HEALTH_CHECK_INTERVAL + 1,
                SecondsPerDay + 10, SecondsPerDay + HEALTH_CHECK_INTERVAL + 1}
\* the values of task["type"]
TaskTypes == (DOMAIN TaskMap) \cup {"", "review"}
\* the values of content["task"]
Tasks == {EmptyDict} \cup { [type |-> task_type] : task_type \in TaskTypes }
\* the contents of a task_request
TaskRequestContents == {EmptyDict} \cup { [task |-> task] : task \in Tasks }

\* ------------------------------------------------------------------------
\* The calls on the hub
\* ------------------------------------------------------------------------
\* subordinate_agents[role] = agent, done by the code that builds the team
AttachSubordinate(role) ==
    /\ subordinate_agents' = EntrySet(subordinate_agents, role, [role |-> role])
    /\ hub_ret' = [op |-> "attach", role |-> role]
    /\ UNCHANGED <<orchestrator, cto_ret, last_health_check, now, settings>>

\* time passes
Tick(t) ==
    /\ t > now
    /\ now' = t
    /\ hub_ret' = NoReturn
    /\ UNCHANGED <<orchestrator, cto_ret, subordinate_agents, last_health_check, settings>>

ProcessMessage(message, raising) ==
    /\ hub_ret' = [op |-> "process_message", message |-> message]
                  @@ process_message(message, raising)
    /\ UNCHANGED <<orchestrator, cto_ret, subordinate_agents, last_health_check, now, settings>>

HealthCheck(raising) ==
    /\ LET outcome == health_check(raising) IN
        /\ hub_ret' = [op |-> "health_check", raising |-> raising, value |-> outcome.value]
        /\ last_health_check' = outcome.last_health_check
    /\ UNCHANGED <<orchestrator, cto_ret, subordinate_agents, now, settings>>

SelfHeal(raising) ==
    /\ hub_ret' = [op |-> "self_heal", raising |-> raising] @@ self_heal(raising)
    /\ UNCHANGED <<orchestrator, cto_ret, subordinate_agents, last_health_check, now, settings>>

NextHub ==
    \/ \E role \in SubordinateRoles : AttachSubordinate(role)
    \/ \E t \in ClockValues : Tick(t)
    \/ \E sender \in Senders, content \in TaskRequestContents :
           ProcessMessage(AgentMessage(sender, CTO, "task_request", content), {})
    \/ \E sender \in Senders, message_type \in {"status_update", "heartbeat"} :
           ProcessMessage(AgentMessage(sender, CTO, message_type, EmptyDict), {})
    \/ \E sender \in Senders : \E raising \in SUBSET {sender} :
           ProcessMessage(AgentMessage(sender, CTO, "error_report",
                                       [error |-> "boom"]), raising)
    \/ \E raising \in SUBSET EntryKeys(subordinate_agents) : HealthCheck(raising)
    \/ \E raising \in SUBSET EntryKeys(subordinate_agents) : SelfHeal(raising)

\* any configuration of ENABLE_SELF_HEALING
InitHub == OrchestratorInit /\ \E enabled \in BOOLEAN : HubInit(enabled)

SpecHub == InitHub /\ [][NextHub]_vars

\* ------------------------------------------------------------------------
\* Properties
\* ------------------------------------------------------------------------
Returned == ret.op = "execute_workflow"
CallsOf(agent_name) == { k \in 1..Len(calls) : calls[k].agent_name = agent_name }
\* the records created by the run that has just returned
RunRecords == { i \in 1..Len(executions) : i > Len(executions) - Len(calls) }
RecordsOf(agent_name) == { i \in RunRecords : executions[i].agent_name = agent_name }
Terminal == {COMPLETED, FAILED}

\* C1: the summary execute_workflow returns satisfies
\* successful + failed = total_tasks, and for an empty mapping the call
\* returns with success_rate "0%".
TheoremC1 ==
    Returned =>
        LET summary == ret.value.summary IN
        /\ summary.total_tasks = Len(ret.task_assignments)
        /\ summary.successful + summary.failed = summary.total_tasks
        /\ (Len(ret.task_assignments) = 0 => summary.success_rate = "0%")

WitnessC1 ==
    /\ Returned
    /\ ret.value.summary.total_tasks = 2
    /\ ret.value.summary.successful = 1
    /\ ret.value.summary.failed = 1
    /\ ret.value.summary.success_rate = "50.0%"

\* C2: the result has success = TRUE exactly when errors is empty; every
\* assignment that was not executed to completion (unregistered agent, or
\* execute_task raised) has an errors entry under its own agent name; no
\* name is in both results and errors.
TheoremC2 ==
    Returned =>
        LET value == ret.value
            ta == ret.task_assignments
        IN
        /\ value.success <=> (DOMAIN value.errors = {})
        /\ \A i \in 1..Len(ta) :
               (\/ ta[i].agent_name \notin DOMAIN agents
                \/ \E k \in CallsOf(ta[i].agent_name) : calls[k].raised)
               => ta[i].agent_name \in DOMAIN value.errors
        /\ DOMAIN value.errors \subseteq Keys(ta)
        /\ (DOMAIN value.results) \cap (DOMAIN value.errors) = {}

WitnessC2 ==
    /\ Returned
    /\ ~ret.value.success
    /\ \E k \in 1..Len(calls) : calls[k].raised
    /\ \E k \in 1..Len(calls) : ~calls[k].raised
    /\ DOMAIN ret.value.results # {}

\* C3: an exception raised by one agent's execute_task never prevents the
\* dispatch of the remaining assignments: every assignment whose agent is
\* registered has execute_task invoked exactly once in the run.
TheoremC3 ==
    Returned =>
        \A i \in 1..Len(ret.task_assignments) :
            LET agent_name == ret.task_assignments[i].agent_name IN
            Cardinality(CallsOf(agent_name)) =
                IF agent_name \in DOMAIN agents THEN 1 ELSE 0

WitnessC3 ==
    /\ Returned
    /\ Len(calls) = 2
    /\ calls[1].raised

\* C4: for an assignment naming an unregistered agent, errors[name] is
\* "Agent '<name>' not registered" and no TaskExecution record is created;
\* every other assignment whose agent is registered is still executed, has
\* its record, and its returned result is recorded in results.
TheoremC4 ==
    (Returned /\ Keys(ret.task_assignments) \ DOMAIN agents # {}) =>
        \A i \in 1..Len(ret.task_assignments) :
            LET agent_name == ret.task_assignments[i].agent_name IN
            IF agent_name \notin DOMAIN agents
            THEN /\ agent_name \in DOMAIN ret.value.errors
                 /\ ret.value.errors[agent_name] = "Agent '" \o agent_name \o "' not registered"
                 /\ agent_name \notin DOMAIN ret.value.results
                 /\ RecordsOf(agent_name) = {}
            ELSE /\ Cardinality(CallsOf(agent_name)) = 1
                 /\ Cardinality(RecordsOf(agent_name)) = 1
                 /\ \A k \in CallsOf(agent_name) :
                        ~calls[k].raised =>
                            /\ agent_name \in DOMAIN ret.value.results
                            /\ ret.value.results[agent_name] = calls[k].value

WitnessC4 ==
    /\ Returned
    /\ Len(ret.task_assignments) = 2
    /\ ret.task_assignments[1].agent_name = "coder1"
    /\ "coder1" \notin DOMAIN agents
    /\ ret.value.errors = [k \in {"coder1"} |-> "Agent 'coder1' not registered"]
    /\ "tester" \in DOMAIN ret.value.results
    /\ Len(executions) = 1
    /\ executions[1].agent_name = "tester"

\* the lifecycle step the records take in one transition of the orchestrator
StatusChanged(i) == executions'[i].status # executions[i].status
\* this transition is an invocation of execute_task by execute_workflow
Invokes == pc = "executing" /\ Len(calls') = Len(calls) + 1

TheoremC6 ==
    [][ /\ \A i \in 1..Len(executions) :
               executions[i].status \in Terminal =>
                   /\ i <= Len(executions')
                   /\ executions'[i] = executions[i]
        /\ Invokes =>
               LET record == executions'[task_execution]
                   call == calls'[Len(calls')]
               IN IF call.raised
                  THEN /\ record.status = FAILED
                       /\ record.error_message = "Task failed: " \o call.value.exception
                       /\ record.result = None
                  ELSE /\ record.status = COMPLETED
                       /\ record.result = call.value
                       /\ record.error_message = NoneStr ]_vars

WitnessC6 ==
    /\ Len(executions) = 2
    /\ executions[1].status = COMPLETED
    /\ executions[1].result \in Payloads
    /\ executions[2].status = FAILED
    /\ executions[2].agent_name = executions[1].agent_name
    /\ ret.op = "register_agent"
    /\ ret.agent_name = executions[1].agent_name

\* C7: in one run every "Write code" assignment is dispatched before any
\* "Test code" assignment, whatever the insertion order of the mapping: while
\* a "Test code" task is in flight no "Write code" assignment of a registered
\* agent is still waiting to be dispatched.
OriginalC7 ==
    pc = "executing" =>
        ~ /\ task_assignments[idx].action = TEST_CODE
          /\ \E j \in (idx + 1)..Len(task_assignments) :
                 /\ task_assignments[j].action = WRITE_CODE
                 /\ task_assignments[j].agent_name \in DOMAIN agents

\* C8: at most one task is in flight (current_tasks has at most one entry and
\* at most one record is InProgress), and current_tasks is empty whenever no
\* run is active.
TheoremC8 ==
    /\ Cardinality(DOMAIN workflow_status.current_tasks) <= 1
    /\ Cardinality({ i \in 1..Len(executions) : executions[i].status = IN_PROGRESS }) <= 1
    /\ ~workflow_status.active => DOMAIN workflow_status.current_tasks = {}

WitnessC8 ==
    /\ pc = "executing"
    /\ idx = 2
    /\ Len(calls) = 1
    /\ DOMAIN workflow_status.current_tasks = {task_assignments[2].agent_name}
    /\ workflow_status.active

\* C9: register_agent fails and leaves the registry unchanged for every
\* candidate lacking one of execute_task, get_status, get_capabilities; only
\* candidates with all three are in the registry.
OriginalC9 ==
    [][ /\ (ret'.op = "register_agent"
            /\ ~(InterfaceMethods \subseteq ret'.agent_instance.attrs))
               => (ret'.raised # NoneStr /\ agents' = agents)
        /\ \A n \in DOMAIN agents' : InterfaceMethods \subseteq agents'[n].attrs ]_vars

\* C10: after execute_workflow returns no Completed or Failed record remains
\* in task_queue (the record was moved to completed_tasks).
OriginalC10 ==
    Returned =>
        \A i \in 1..Len(task_queue) : executions[task_queue[i]].status \notin Terminal

\* C11: all TaskExecution records ever created by one orchestrator have
\* pairwise distinct task_id values.
TheoremC11 ==
    \A i, j \in 1..Len(executions) :
        i # j => executions[i].task_id # executions[j].task_id

WitnessC11 ==
    /\ Len(executions) = 2
    /\ executions[1].agent_name = executions[2].agent_name
    /\ executions[1].status = FAILED
    /\ executions[1].task_id = "tester_1"
    /\ executions[2].task_id = "tester_2"
    /\ Returned
    /\ Len(calls) = 1

\* C12: the registry holds, for each name, the agent of the last successful
\* register_agent call under that name: a call that returns binds its agent
\* (overwriting the previous one), a call that raises changes nothing; and a
\* dispatch to the name invokes the bound agent.
OriginalC12 ==
    [][ /\ ret'.op = "register_agent" =>
               IF ret'.raised = NoneStr
               THEN agents' = Put(agents, ret'.agent_name, ret'.agent_instance)
               ELSE agents' = agents
        /\ Invokes => calls'[Len(calls')].agent = agents[calls'[Len(calls')].agent_name] ]_vars

\* C13: get_workflow_status and get_agent_status leave the registry,
\* task_queue, completed_tasks and workflow_status unchanged, and so does
\* whatever the caller does with the snapshot they returned.
OriginalC13 ==
    [][ ret'.op \in {"get_workflow_status", "get_agent_status", "caller_write"} =>
            UNCHANGED <<agents, executions, task_queue, completed_tasks, workflow_status>> ]_vars

\* ------------------------------------------------------------------------
\* The legacy CTO agent: claims
\* ------------------------------------------------------------------------
CtoReturned(op) == cto_ret.op = op
KeysOf(items) == { items[i].agent : i \in 1..Len(items) }
ValueOf(items, agent) == items[CHOOSE i \in 1..Len(items) : items[i].agent = agent]

\* C14: analyze_prompt fails with an error for every empty or whitespace-only
\* text and never returns an analysis for it.
OriginalC14 ==
    (CtoReturned("analyze_prompt") /\ Strip(cto_ret.user_prompt) = <<>>)
        => cto_ret.raised # NoneStr

\* C15: process_user_request on an empty or whitespace-only text returns the
\* error entry and nothing else, has run no analysis, decomposition, validation
\* or ordering step, and leaves no TaskExecution record.
TheoremC15 ==
    (CtoReturned("process_user_request") /\ Strip(cto_ret.user_prompt) = <<>>)
        => /\ KeysOf(cto_ret.result.value) = {"error"}
           /\ Len(cto_ret.result.value) = 1
           /\ ValueOf(cto_ret.result.value, "error").value.action = "Error"
           /\ cto_ret.result.steps = <<>>
           /\ executions = <<>>
           /\ task_queue = <<>>
WitnessC15 ==
    /\ CtoReturned("process_user_request")
    /\ cto_ret.user_prompt = <<" ", "\t">>
    /\ cto_ret.result.value =
           << [agent |-> "error",
               value |-> [role |-> "System", action |-> "Error",
                          task |-> "Error processing user request: User prompt cannot be empty"]] >>

\* C16 as stated: for the example prompt the result holds exactly a backend
\* assignment ("Implement user authentication and authorization system") and a
\* tester assignment, and no frontend assignment.
OriginalC16 ==
    (CtoReturned("process_user_request") /\ cto_ret.user_prompt = ExamplePrompt)
        => /\ KeysOf(cto_ret.result.value) = {"coder1", "tester"}
           /\ ValueOf(cto_ret.result.value, "coder1").value.task =
                  "Implement user authentication and authorization system"

\* C16: for the example prompt the detected features are authentication,
\* frontend ('web' is a frontend keyword) and security, and the result holds
\* exactly the backend assignment "Implement user authentication and
\* authorization system", a frontend assignment with the login/signup forms
\* and a tester assignment.
TheoremC16 ==
    (CtoReturned("process_user_request") /\ cto_ret.user_prompt = ExamplePrompt)
        => /\ cto_ret.result.analysis.features = <<"authentication", "frontend", "security">>
           /\ Len(cto_ret.result.value) = 3
           /\ KeysOf(cto_ret.result.value) = {"coder1", "coder2", "tester"}
           /\ ValueOf(cto_ret.result.value, "coder1").value.task =
                  "Implement user authentication and authorization system"
           /\ ValueOf(cto_ret.result.value, "coder2").value.task =
                  "Develop responsive user interface and client-side functionality including login/signup forms"
           /\ ValueOf(cto_ret.result.value, "tester").value.action = TEST_CODE
WitnessC16 ==
    /\ CtoReturned("process_user_request")
    /\ cto_ret.user_prompt = ExamplePrompt
    /\ "coder2" \in KeysOf(cto_ret.result.value)
    /\ cto_ret.result.steps # <<>>

\* C17: for every set of features and every complexity, the decomposition
\* contains a tester assignment whose action is "Test code" and whose task is
\* not empty.
TheoremC17 ==
    CtoReturned("_decompose_and_assign")
        => /\ "tester" \in KeysOf(cto_ret.value)
           /\ ValueOf(cto_ret.value, "tester").assignment.action = "Test code"
           /\ ValueOf(cto_ret.value, "tester").assignment.task # ""
WitnessC17 ==
    /\ CtoReturned("_decompose_and_assign")
    /\ cto_ret.analysis.features = <<>>
    /\ cto_ret.analysis.constraints.complexity = "low"
    /\ KeysOf(cto_ret.value) = {"tester"}
    /\ ValueOf(cto_ret.value, "tester").assignment.task =
           "Perform basic unit tests and functionality verification on all implemented components"

\* C18: the decomposition has a coder1 (backend) assignment exactly when one
\* of authentication, database, api is among the features and a coder2
\* (frontend) assignment exactly when frontend is; security, deployment,
\* testing and monitoring neither cause nor suppress either of them.
TheoremC18 ==
    CtoReturned("_decompose_and_assign")
        => LET features == { cto_ret.analysis.features[i] :
                               i \in 1..Len(cto_ret.analysis.features) }
           IN /\ "coder1" \in KeysOf(cto_ret.value)
                    <=> features \cap {"authentication", "database", "api"} # {}
              /\ "coder2" \in KeysOf(cto_ret.value) <=> "frontend" \in features
WitnessC18 ==
    /\ CtoReturned("_decompose_and_assign")
    /\ cto_ret.analysis.features = <<"api", "security", "testing">>
    /\ KeysOf(cto_ret.value) = {"coder1", "tester"}
    /\ ValueOf(cto_ret.value, "coder1").assignment.task =
           "Implement REST API endpoints and business logic"

\* C19: get_execution_order returns a permutation of the keys sorted by the
\* priority of the action (Write code 1, Test code 3, any other 999), keys of
\* equal priority in their insertion order; for {A: Test code, B: Write code,
\* C: Write code} the order is B, C, A.
PriorityOf(assignments, agent) ==
    LET action == ValueOf(assignments, agent).assignment.action
    IN IF action = "Write code" THEN 1 ELSE IF action = "Test code" THEN 3 ELSE 999
PositionOf(seq, x) == CHOOSE i \in 1..Len(seq) : seq[i] = x
TheoremC19 ==
    CtoReturned("get_execution_order")
        => LET assignments == cto_ret.assignments
               order == cto_ret.value
           IN /\ Len(order) = Len(assignments)
              /\ { order[i] : i \in 1..Len(order) } = KeysOf(assignments)
              /\ \A i, j \in 1..Len(order) :
                     i < j => PriorityOf(assignments, order[i]) <= PriorityOf(assignments, order[j])
              /\ \A i, j \in 1..Len(assignments) :
                     (/\ i < j
                      /\ PriorityOf(assignments, assignments[i].agent)
                             = PriorityOf(assignments, assignments[j].agent))
                         => PositionOf(order, assignments[i].agent)
                                < PositionOf(order, assignments[j].agent)
WitnessC19 ==
    /\ CtoReturned("get_execution_order")
    /\ [i \in 1..Len(cto_ret.assignments) |->
           <<cto_ret.assignments[i].agent, cto_ret.assignments[i].assignment.action>>]
         = << <<"tester", "Test code">>, <<"coder1", "Write code">>, <<"coder2", "Write code">> >>
    /\ cto_ret.value = <<"coder1", "coder2", "tester">>

\* C20: _ensure_workflow_compliance only adds: every key it was given keeps
\* its assignment and its place, a tester assignment is present afterwards,
\* and applying it to its own result changes nothing.
TheoremC20 ==
    CtoReturned("_ensure_workflow_compliance")
        => /\ Len(cto_ret.value) >= Len(cto_ret.assignments)
           /\ SubSeq(cto_ret.value, 1, Len(cto_ret.assignments)) = cto_ret.assignments
           /\ "tester" \in KeysOf(cto_ret.value)
           /\ ensure_workflow_compliance(cto_ret.value, cto_ret.analysis) = cto_ret.value
WitnessC20 ==
    /\ CtoReturned("_ensure_workflow_compliance")
    /\ KeysOf(cto_ret.assignments) = {"coder1"}
    /\ cto_ret.assignments[1].assignment.action = "Deploy application"
    /\ Len(cto_ret.value) = 2
    /\ cto_ret.value[2].agent = "tester"
    /\ cto_ret.value[2].assignment.task = "Perform mandatory testing before deployment"

\* ------------------------------------------------------------------------
\* The message hub: claims
\* ------------------------------------------------------------------------
HubReturned(op) == hub_ret.op = op
Handled(message_type) ==
    HubReturned("process_message") /\ hub_ret.message.message_type = message_type
Registered == { subordinate_agents[i].key : i \in 1..Len(subordinate_agents) }
Attempted == { hub_ret.calls[k].role : k \in 1..Len(hub_ret.calls) }

\* C21: a task_request is answered with a task_assignment (sender CTO,
\* receiver the resolved role, content carrying the task) exactly when the
\* task has a recognized type whose role is a registered subordinate; with no
\* type, an unrecognized type or an unregistered role the answer is an error
\* message to the original sender.
OriginalC21 ==
    Handled("task_request")
        => LET message == hub_ret.message
               task == IF "task" \in DOMAIN message.content
                       THEN message.content.task ELSE EmptyDict
               recognized ==
                   /\ "type" \in DOMAIN task
                   /\ task.type \in {"code", "test", "security", "data", "documentation",
                                     "deployment", "finance"}
                   /\ TaskMap[task.type] \in Registered
           IN IF recognized
              THEN /\ hub_ret.value.message_type = "task_assignment"
                   /\ hub_ret.value.sender = "cto"
                   /\ hub_ret.value.receiver = TaskMap[task.type]
                   /\ hub_ret.value.content = [task |-> task]
              ELSE /\ hub_ret.value.message_type = "error"
                   /\ hub_ret.value.receiver = message.sender

\* C22: on an error_report the subordinate's self_heal is invoked on the
\* reporting role exactly when self-healing is enabled, and the action
\* "self_heal_initiated" is reported only if that attempt was made.
OriginalC22 ==
    Handled("error_report")
        => /\ hub_ret.message.sender \in Attempted <=> settings.ENABLE_SELF_HEALING
           /\ hub_ret.value.content.action = "self_heal_initiated"
                  => hub_ret.message.sender \in Attempted

\* C23: whenever the assignments fail the validation (some action is the
\* deployment action and none is "Test code"), the assignments
\* _ensure_workflow_compliance returns pass it.
FailsValidation(assignments) ==
    /\ \E i \in 1..Len(assignments) : assignments[i].assignment.action = "Deploy application"
    /\ \A i \in 1..Len(assignments) : assignments[i].assignment.action # "Test code"
OriginalC23 ==
    (CtoReturned("_ensure_workflow_compliance") /\ FailsValidation(cto_ret.assignments))
        => ~FailsValidation(cto_ret.value)

\* C24: health_check polls every registered subordinate whatever the earlier
\* polls did: the status is "degraded" exactly when a poll raised, a role
\* whose poll raised has an error entry, every other role its own report, and
\* last_health_check is set for the roles whose poll returned and for no other.
TheoremC24 ==
    [][ hub_ret'.op = "health_check" =>
          LET report == hub_ret'.value
              raising == hub_ret'.raising
          IN /\ EntryKeys(report.agents) = Registered
             /\ Len(report.agents) = Cardinality(Registered)
             /\ report.status = IF raising \cap Registered # {} THEN "degraded" ELSE "healthy"
             /\ \A role \in Registered \cap raising :
                    EntryGet(report.agents, role).status = "error"
             /\ \A role \in Registered \ raising :
                    /\ EntryGet(report.agents, role).status = "healthy"
                    /\ EntryGet(report.agents, role).role = role
                    /\ role \in EntryKeys(last_health_check')
                    /\ EntryGet(last_health_check', role) = now
             /\ \A role \in ProtocolRoles \ (Registered \ raising) :
                    /\ role \in EntryKeys(last_health_check')
                           <=> role \in EntryKeys(last_health_check)
                    /\ role \in EntryKeys(last_health_check)
                           => EntryGet(last_health_check', role)
                                  = EntryGet(last_health_check, role) ]_vars
WitnessC24 ==
    /\ HubReturned("health_check")
    /\ [i \in 1..Len(subordinate_agents) |-> subordinate_agents[i].key] = <<"cto", "coding">>
    /\ hub_ret.raising = {"cto"}
    /\ hub_ret.value.status = "degraded"
    /\ EntryGet(hub_ret.value.agents, "coding").status = "healthy"
    /\ now > 0
    /\ last_health_check = <<[key |-> "coding", value |-> now]>>

\* C25: self_heal attempts the recovery of every registered subordinate whose
\* recorded check-in is more than HEALTH_CHECK_INTERVAL seconds in the past,
\* whatever the duration, and of no subordinate within the window.
OriginalC25 ==
    HubReturned("self_heal")
        => \A i \in 1..Len(last_health_check) :
               last_health_check[i].key \in Registered
                   => (now - last_health_check[i].value > 60
                           <=> last_health_check[i].key \in Attempted)

\* C26: an exception of a subordinate's self_heal does not leave the CTO:
\* self_heal still attempts every subordinate its window test finds stale and
\* returns true, and an error_report is still answered with the error_response.
TheoremC26 ==
    /\ HubReturned("self_heal")
           => /\ hub_ret.value = TRUE
              /\ Attempted = { role \in Registered :
                                 /\ role \in EntryKeys(last_health_check)
                                 /\ (now - EntryGet(last_health_check, role)) % 86400 > 60 }
              /\ \A k \in 1..Len(hub_ret.calls) :
                     hub_ret.calls[k].raised <=> hub_ret.calls[k].role \in hub_ret.raising
    /\ Handled("error_report")
           => /\ hub_ret.raised = NoneStr
              /\ hub_ret.value.message_type = "error_response"
              /\ hub_ret.value.sender = "cto"
              /\ hub_ret.value.receiver = hub_ret.message.sender
WitnessC26 ==
    /\ HubReturned("self_heal")
    /\ hub_ret.calls = << [role |-> "cto", raised |-> TRUE],
                          [role |-> "coding", raised |-> FALSE] >>
    /\ hub_ret.value = TRUE

\* ------------------------------------------------------------------------
\* The orchestrator: registry and bookkeeping
\* ------------------------------------------------------------------------
\* C27: the registry is written by register_agent only: execute_workflow (all
\* of its steps, whether the agent returns, raises or is not registered),
\* execute_single_task, get_workflow_status and get_agent_status leave it
\* unchanged, so it does not change while a run is in flight.
TheoremC27 ==
    [][ /\ agents' # agents => ret'.op = "register_agent"
        /\ (pc # "idle" \/ pc' # "idle") => agents' = agents
        /\ ret'.op \in {"execute_workflow", "execute_single_task", "get_workflow_status",
                        "get_agent_status"} => agents' = agents ]_vars
WitnessC27 ==
    /\ Returned
    /\ Cardinality(DOMAIN agents) = 1
    /\ Len(calls) = 1
    /\ calls[1].raised
    /\ Cardinality(DOMAIN ret.value.errors) = 2

\* C28: a task whose agent returns normally is a success whatever the result
\* says: with a result whose success field is false the record is Completed,
\* the result is in results and counted in successful, and the workflow
\* result's success is false only if a task raised or a name was not registered.
TheoremC28 ==
    Returned
        => /\ \A k \in 1..Len(calls) :
                  (~calls[k].raised /\ ~calls[k].value.success)
                      => /\ calls[k].agent_name \in DOMAIN ret.value.results
                         /\ ret.value.results[calls[k].agent_name] = calls[k].value
                         /\ calls[k].agent_name \notin DOMAIN ret.value.errors
                         /\ \A i \in RecordsOf(calls[k].agent_name) :
                                executions[i].status = COMPLETED
           /\ ret.value.summary.successful
                  = Cardinality({ k \in 1..Len(calls) : ~calls[k].raised })
           /\ ret.value.success
                  <=> /\ \A k \in 1..Len(calls) : ~calls[k].raised
                      /\ \A j \in 1..Len(ret.task_assignments) :
                             ret.task_assignments[j].agent_name \in DOMAIN agents
WitnessC28 ==
    /\ Returned
    /\ Len(calls) = 1
    /\ ~calls[1].raised
    /\ calls[1].value = [success |-> FALSE]
    /\ ret.value.success
    /\ ret.value.summary.successful = 1
    /\ executions[Len(executions)].status = COMPLETED

\* C29: a register_agent call that raises leaves the registry as it was
\* before the call.
OriginalC29 ==
    [][ (ret'.op = "register_agent" /\ ret'.raised # NoneStr) => agents' = agents ]_vars

\* C30 as stated, with progress equal to the number of records the current
\* run has created, at every moment of the run.
CreatedByRun ==
    Cardinality({ j \in 1..Len(task_assignments) :
                    /\ j < idx \/ (j = idx /\ pc = "executing")
                    /\ task_assignments[j].agent_name \in DOMAIN agents })
InFlight == IF pc = "executing" THEN 1 ELSE 0
Bookkeeping(in_flight) ==
    /\ pc = "idle" => /\ completed_tasks = task_queue
                      /\ \A i \in 1..Len(executions) : executions[i].status \in Terminal
    /\ pc # "idle" => /\ Len(completed_tasks) <= Len(task_queue)
                      /\ Len(task_queue) <= Len(completed_tasks) + 1
                      /\ workflow_status.progress = CreatedByRun - in_flight
    /\ workflow_status.progress <= workflow_status.total_tasks
====
